---- MODULE Spec2Model ----
(***************************************************************************)
(* Model of sqlx-core/src/sqlite/statement.rs: the Statement object that   *)
(* wraps one sqlite3_stmt, its compile (Statement::new), bind, reset,      *)
(* step (through the connection's Worker) and Drop (sqlite3_finalize).     *)
(*                                                                         *)
(* Source text is a sequence of one-character strings over Alphabet:       *)
(*   "a", "b"  a result column (an identifier of the statement body)       *)
(*   "?"       a bindable parameter                                        *)
(*   ";"       the statement terminator                                    *)
(*   " "       whitespace                                                  *)
(*   "!"       a token the engine's parser rejects                         *)
(***************************************************************************)
EXTENDS Integers, Sequences, FiniteSets, TLC

\* ---------------------------------------------------------------- bounds
MaxLen == 4
MaxRows == 1
MaxHandles == 2
MaxSubmits == 2

Alphabet == {"a", "b", "?", ";", " ", "!"}
Tasks == {"t1", "t2"}
Handles == 1..MaxHandles
NoHandle == 0

Texts == UNION {[1..k -> Alphabet] : k \in 0..MaxLen}

\* The texts the lifecycle specification compiles from.
LifecycleBuffers == { <<"a", "?", ";", "b", ";", "!">> }

\* The texts the bind specification compiles from.
BindBuffers == { <<"a", "?", "?", ";", "!">>, <<"b", ";">> }

VARIABLES
  buffer,      \* the original source text the caller's cursor points into
  cursor,      \* query: &mut &str, a sub-slice [off, len] of buffer
  last,        \* the most recent call of Statement::new: its input and outcome
  compiled,    \* per successful compile, in order: cursor start and tail
  stmt,        \* the Statement objects by handle: tail, columns, owner state
  eng,         \* the engine's state of each sqlite3_stmt
  connDiag,    \* the connection's last diagnostic (errcode, errmsg)
  own,         \* the Statement each task owns (NoHandle: none)
  pc,          \* each task's position
  result,      \* each task's last operation result
               \* (for bind: with the number of values taken from the source)
  reply,       \* the Worker's answer waiting for each task
  queue,       \* units of work submitted to the Worker, oldest first
  running,     \* the unit the Worker thread is executing (<<>>: none)
  workerAlive, \* the Worker's thread exists
  nextSeq,     \* submission counter
  stepLog,     \* the engine's view: the step calls in call order, each with its
               \* submission number and whether another step was executing
  finalized,   \* per handle: number of sqlite3_finalize calls issued
  lateCalls,   \* handles on which an engine call was issued after the release
  raced,       \* handles used on a task's thread while a step unit was pending or executing
  cancelRuns   \* number of units cancelled while queued that the Worker has executed

vars == <<buffer, cursor, last, compiled, stmt, eng, connDiag, own, pc, result,
          reply, queue, running, workerAlive, nextSeq, stepLog, finalized,
          lateCalls, raced, cancelRuns>>

\* ------------------------------------------------------------ source text
IsWs(c) == c = " "

\* The slice a cursor denotes.
Text(cur) == SubSeq(buffer, cur.off + 1, cur.off + cur.len)

\* The tokenizer skips whitespace and empty statements (a lone ";").
RECURSIVE SkipEmpty(_, _)
SkipEmpty(z, i) ==
  IF i > Len(z) THEN i
  ELSE IF z[i] \in {" ", ";"} THEN SkipEmpty(z, i + 1)
  ELSE i

\* Parse one statement starting at index i: the status, and the number of
\* bytes consumed when the parser stopped.
RECURSIVE ScanStmt(_, _)
ScanStmt(z, j) ==
  IF j > Len(z) THEN [status |-> "SQLITE_OK", tail |-> Len(z)]
  ELSE IF z[j] = "!" THEN [status |-> "SQLITE_ERROR", tail |-> j - 1]
  ELSE IF z[j] = ";" THEN [status |-> "SQLITE_OK", tail |-> j]
  ELSE ScanStmt(z, j + 1)

\* The column names of a statement body, in order.
ColumnsOf(body) == SelectSeq(body, LAMBDA c : c \in {"a", "b"})
ParamsOf(body) == Len(SelectSeq(body, LAMBDA c : c = "?"))

\* sqlite3_prepare_v3 as the code calls it: compiles the first statement of
\* z. null: *ppStmt stays NULL (an error, or a text with no statement, which
\* the engine reports as SQLITE_OK). tail: *pzTail - zSql.
sqlite3_prepare_v3(z) ==
  LET i == SkipEmpty(z, 1)
      s == ScanStmt(z, i)
      body == SubSeq(z, i, s.tail)
  IN  IF i > Len(z)
      THEN [status |-> "SQLITE_OK", null |-> TRUE, tail |-> Len(z),
            names |-> <<>>, nparams |-> 0]
      ELSE IF s.status # "SQLITE_OK"
      THEN [status |-> s.status, null |-> TRUE, tail |-> s.tail,
            names |-> <<>>, nparams |-> 0]
      ELSE [status |-> "SQLITE_OK", null |-> FALSE, tail |-> s.tail,
            names |-> ColumnsOf(body), nparams |-> ParamsOf(body)]

\* The diagnostic the connection holds after an engine call with this status.
DiagOf(status) ==
  CASE status = "SQLITE_OK" -> [code |-> "SQLITE_OK", msg |-> "not an error"]
    [] status = "SQLITE_ERROR" -> [code |-> "SQLITE_ERROR", msg |-> "syntax error"]
    [] status = "SQLITE_ROW" -> [code |-> "SQLITE_ROW", msg |-> "another row available"]
    [] status = "SQLITE_DONE" -> [code |-> "SQLITE_DONE", msg |-> "no more rows available"]
    [] status = "SQLITE_BUSY" -> [code |-> "SQLITE_BUSY", msg |-> "database is locked"]
    [] OTHER -> [code |-> status, msg |-> "unknown error"]

\* SqliteError::from_connection: the code and message the connection holds now.
from_connection(diag) == [kind |-> "err", code |-> diag.code, msg |-> diag.msg]

\* str::trim applied to the slice [off, len] of buffer: strips whitespace
\* from both ends.
RECURSIVE LeadingWs(_)
LeadingWs(z) ==
  IF z # <<>> /\ IsWs(Head(z)) THEN 1 + LeadingWs(Tail(z)) ELSE 0

RECURSIVE TrailingWs(_)
TrailingWs(z) ==
  IF z # <<>> /\ IsWs(z[Len(z)]) THEN 1 + TrailingWs(SubSeq(z, 1, Len(z) - 1)) ELSE 0

\* trim_start only: whitespace at the end of the text is kept.
TrimStartOnly(cur) ==
  LET z == Text(cur)
      lead == LeadingWs(z)
  IN  [off |-> cur.off + lead, len |-> cur.len - lead]

trim(cur) ==
  LET z == Text(cur)
      lead == LeadingWs(z)
  IN  IF lead = Len(z)
      THEN [off |-> cur.off + lead, len |-> 0]
      ELSE [off |-> cur.off + lead, len |-> cur.len - lead - TrailingWs(z)]

\* The offset taken from the start of the whole buffer (address 0).
TailOffsetFromBase(tailPtr, queryPtr) == tailPtr

\* let tail = (tail as usize) - (query_ptr as usize);
TailOffset(tailPtr, queryPtr) == tailPtr - queryPtr

\* The remainder re-trimmed without being advanced.
QueryRestNoAdvance(cur, tail) == trim(cur)

\* *query = &query[tail..].trim();
QueryRest(cur, tail) == trim([off |-> cur.off + tail, len |-> cur.len - tail])

\* An insert that keeps the index already stored under a name.
RECURSIVE InsertColumnsFirstWins(_, _, _)
InsertColumnsFirstWins(map, names, i) ==
  IF i >= Len(names) THEN map
  ELSE LET name == names[i + 1]
       IN  InsertColumnsFirstWins([n \in (DOMAIN map) \cup {name} |->
                                     IF n \in DOMAIN map THEN map[n] ELSE i],
                                  names, i + 1)

\* A loop that stops one column short of the engine's column count.
RECURSIVE InsertColumnsOneShort(_, _, _)
InsertColumnsOneShort(map, names, i) ==
  IF i + 1 >= Len(names) THEN map
  ELSE LET name == names[i + 1]
       IN  InsertColumnsOneShort([n \in (DOMAIN map) \cup {name} |->
                                    IF n = name THEN i ELSE map[n]], names, i + 1)

\* for i in 0..count { columns.insert(column_name(i), i) }
RECURSIVE InsertColumns(_, _, _)
InsertColumns(map, names, i) ==
  IF i >= Len(names) THEN map
  ELSE LET name == names[i + 1]
       IN  InsertColumns([n \in (DOMAIN map) \cup {name} |->
                            IF n = name THEN i ELSE map[n]], names, i + 1)

EmptyMap == [n \in {} |-> 0]

\* The early return advanced past the rejected text.
ErrorReturnAdvanced(cur, p, diag) ==
  [outcome |-> "err", cursor |-> QueryRest(cur, p.tail), tail |-> 0,
   err |-> from_connection(diag), columns |-> EmptyMap]

\* if status != SQLITE_OK { return Err(SqliteError::from_connection(..)) }
ErrorReturn(cur, p, diag) ==
  [outcome |-> "err", cursor |-> cur, tail |-> 0,
   err |-> from_connection(diag), columns |-> EmptyMap]

NoErr == [kind |-> "none", code |-> "", msg |-> ""]

\* Statement::new on the slice cur: the outcome ("ok": a Statement, "err":
\* an error, "panic": NonNull::new(..).unwrap() on a null handle), the
\* cursor as the call leaves it, and the fields of the new Statement.
StatementNew(cur) ==
  LET p == sqlite3_prepare_v3(Text(cur))
      diag == DiagOf(p.status)
      queryPtr == cur.off
      tailPtr == queryPtr + p.tail
      tail == TailOffset(tailPtr, queryPtr)
  IN  IF p.status # "SQLITE_OK"
      THEN ErrorReturn(cur, p, diag)
      ELSE IF p.null
      THEN [outcome |-> "panic", cursor |-> QueryRest(cur, tail), tail |-> tail,
            err |-> NoErr, columns |-> EmptyMap]
      ELSE [outcome |-> "ok", cursor |-> QueryRest(cur, tail), tail |-> tail,
            err |-> NoErr,
            columns |-> InsertColumns(EmptyMap, p.names, 0)]

\* ------------------------------------------------------------ engine state
Values == {"v", "bad"}

\* The argument sources the lifecycle specification binds from.
ArgSources ==
  { <<>>, <<"v">>, <<"bad">>, <<"v", "v">>, <<"v", "bad">>, <<"bad", "v">>,
    <<"v", "v", "v">>, <<"v", "v", "bad">>, <<"bad", "v", "v">> }

NoStmt == [tail |-> 0, columns |-> EmptyMap]
NoEng == [st |-> "none", pos |-> 0, done |-> FALSE, binds |-> <<>>]

\* The engine's statement as sqlite3_prepare_v3 hands it out: not yet
\* stepped, every parameter NULL.
FreshEng(n) ==
  [st |-> "prepared", pos |-> 0, done |-> FALSE, binds |-> [k \in 1..n |-> "NULL"]]

\* A step unit is pending in the Worker's queue, or executing, for handle h.
Pending(h) ==
  \/ \E i \in 1..Len(queue) : queue[i].h = h
  \/ \E i \in 1..Len(running) : running[i].h = h

\* An engine call on h issued on the calling task's thread.
TouchOnTask(h) ==
  /\ raced' = IF Pending(h) THEN raced \cup {h} ELSE raced
  /\ lateCalls' = IF eng[h].st = "finalized" THEN lateCalls \cup {h} ELSE lateCalls
  /\ running' = [i \in 1..Len(running) |->
                   IF running[i].h = h
                   THEN [running[i] EXCEPT !.clobbered = TRUE]
                   ELSE running[i]]

FreeHandles == {h \in Handles : eng[h].st = "none"}

InitWith(bufs) ==
  /\ buffer \in bufs
  /\ cursor = [off |-> 0, len |-> Len(buffer)]
  /\ last = [before |-> cursor, outcome |-> "none", tail |-> 0, err |-> NoErr,
             h |-> NoHandle, diag |-> DiagOf("SQLITE_OK")]
  /\ compiled = <<>>
  /\ stmt = [h \in Handles |-> NoStmt]
  /\ eng = [h \in Handles |-> NoEng]
  /\ connDiag = DiagOf("SQLITE_OK")
  /\ own = [t \in Tasks |-> NoHandle]
  /\ pc = [t \in Tasks |-> "idle"]
  /\ result = [t \in Tasks |-> [kind |-> "none", code |-> "", msg |-> ""]]
  /\ reply = [t \in Tasks |-> "none"]
  /\ queue = <<>>
  /\ running = <<>>
  /\ workerAlive = TRUE
  /\ nextSeq = 1
  /\ stepLog = <<>>
  /\ finalized = [h \in Handles |-> 0]
  /\ lateCalls = {}
  /\ raced = {}
  /\ cancelRuns = 0

Init == InitWith(LifecycleBuffers)

InitCompile == InitWith(Texts)

Ok(what) == [kind |-> what, code |-> "", msg |-> ""]

queueVars == <<reply, queue, workerAlive, nextSeq, stepLog, cancelRuns>>
workerVars == <<queueVars, running>>

\* ------------------------------------------------------------ Statement::new
\* The calling task compiles the text under the caller's cursor.
Compile(t) ==
  /\ pc[t] = "idle"
  /\ own[t] = NoHandle
  /\ LET r == StatementNew(cursor)
         p == sqlite3_prepare_v3(Text(cursor))
     IN  /\ connDiag' = DiagOf(p.status)
         /\ cursor' = r.cursor
         /\ \/ /\ r.outcome = "ok"
               /\ FreeHandles # {}
               /\ LET h == CHOOSE x \in FreeHandles : \A y \in FreeHandles : x <= y
                  IN  /\ eng' = [eng EXCEPT ![h] = FreshEng(p.nparams)]
                      /\ stmt' = [stmt EXCEPT ![h] =
                                    [tail |-> r.tail, columns |-> r.columns]]
                      /\ own' = [own EXCEPT ![t] = h]
                      /\ last' = [before |-> cursor, outcome |-> "ok", tail |-> r.tail,
                                  err |-> NoErr, h |-> h, diag |-> connDiag']
               /\ compiled' = Append(compiled, [start |-> cursor.off, tail |-> r.tail])
               /\ result' = [result EXCEPT ![t] = Ok("Statement")]
               /\ pc' = pc
            \/ /\ r.outcome = "err"
               /\ last' = [before |-> cursor, outcome |-> "err", tail |-> 0,
                           err |-> r.err, h |-> NoHandle, diag |-> connDiag']
               /\ result' = [result EXCEPT ![t] = r.err]
               /\ UNCHANGED <<eng, stmt, own, compiled, pc>>
            \/ /\ r.outcome = "panic"
               /\ last' = [before |-> cursor, outcome |-> "panic", tail |-> r.tail,
                           err |-> NoErr, h |-> NoHandle, diag |-> connDiag']
               /\ result' = [result EXCEPT ![t] = Ok("panic")]
               /\ pc' = [pc EXCEPT ![t] = "panicked"]
               /\ UNCHANGED <<eng, stmt, own, compiled>>
  /\ UNCHANGED <<buffer, workerVars, finalized, lateCalls, raced>>

\* -------------------------------------------------------------------- Drop
\* sqlite3_finalize(self.handle()) on the dropping task's thread.
Finalize(h) ==
  /\ TouchOnTask(h)
  /\ finalized' = [finalized EXCEPT ![h] = @ + 1]
  /\ eng' = [eng EXCEPT ![h].st = "finalized"]

Drop(t) ==
  /\ pc[t] = "idle"
  /\ own[t] # NoHandle
  /\ Finalize(own[t])
  /\ own' = [own EXCEPT ![t] = NoHandle]
  /\ result' = [result EXCEPT ![t] = Ok("unit")]
  /\ UNCHANGED <<buffer, cursor, last, compiled, stmt, connDiag, pc, queueVars>>

NextCompile == \E t \in Tasks : Compile(t) \/ Drop(t)

SpecCompile == InitCompile /\ [][NextCompile]_vars

\* -------------------------------------------------------------------- bind
\* value.bind(self, index): the engine rejects the value "bad", and rejects
\* any bind on a statement stepped since its last reset (SQLITE_MISUSE).
BindStatus(e, v) ==
  IF e.pos > 0 \/ e.done THEN "SQLITE_MISUSE"
  ELSE IF v = "bad" THEN "SQLITE_TOOBIG"
  ELSE "SQLITE_OK"

\* A bind loop that reports a source holding fewer values than the
\* statement has parameters.
RECURSIVE BindLoopExhaustError(_, _, _, _)
BindLoopExhaustError(e, args, index, n) ==
  IF index >= n
  THEN [eng |-> e, args |-> args, status |-> "SQLITE_OK"]
  ELSE IF args = <<>>
  THEN [eng |-> e, args |-> args, status |-> "SQLITE_RANGE"]
  ELSE LET st == BindStatus(e, Head(args))
       IN  IF st # "SQLITE_OK"
           THEN [eng |-> e, args |-> Tail(args), status |-> st]
           ELSE BindLoopExhaustError([e EXCEPT !.binds[index + 1] = Head(args)],
                                     Tail(args), index + 1, n)

\* A bind loop that undoes the binds made so far when a value is rejected.
RECURSIVE BindLoopRollback(_, _, _, _)
BindLoopRollback(e, args, index, n) ==
  IF index >= n \/ args = <<>>
  THEN [eng |-> e, args |-> args, status |-> "SQLITE_OK"]
  ELSE LET st == BindStatus(e, Head(args))
       IN  IF st # "SQLITE_OK"
           THEN [eng |-> [e EXCEPT !.binds = [k \in DOMAIN e.binds |-> "NULL"]],
                 args |-> Tail(args), status |-> st]
           ELSE BindLoopRollback([e EXCEPT !.binds[index + 1] = Head(args)],
                                 Tail(args), index + 1, n)

\* A bind loop that drains its source: values beyond the last parameter
\* are taken and dropped.
RECURSIVE BindLoopDrain(_, _, _, _)
BindLoopDrain(e, args, index, n) ==
  IF args = <<>>
  THEN [eng |-> e, args |-> args, status |-> "SQLITE_OK"]
  ELSE IF index >= n
  THEN BindLoopDrain(e, Tail(args), index + 1, n)
  ELSE LET st == BindStatus(e, Head(args))
       IN  IF st # "SQLITE_OK"
           THEN [eng |-> e, args |-> Tail(args), status |-> st]
           ELSE BindLoopDrain([e EXCEPT !.binds[index + 1] = Head(args)],
                              Tail(args), index + 1, n)

\* for index in 0..self.params() { if let Some(value) = arguments.next()
\*   { value.bind(self, index + 1)?; } else { break; } }
RECURSIVE BindLoop(_, _, _, _)
BindLoop(e, args, index, n) ==
  IF index >= n \/ args = <<>>
  THEN [eng |-> e, args |-> args, status |-> "SQLITE_OK"]
  ELSE LET st == BindStatus(e, Head(args))
       IN  IF st # "SQLITE_OK"
           THEN [eng |-> e, args |-> Tail(args), status |-> st]
           ELSE BindLoop([e EXCEPT !.binds[index + 1] = Head(args)],
                         Tail(args), index + 1, n)

\* sqlite3_bind_parameter_count
params(e) == Len(e.binds)

\* What bind returned, with the number of values its loop took from the
\* caller's argument source by calling arguments.next().
Took(r, args, rest) ==
  [kind |-> r.kind, code |-> r.code, msg |-> r.msg, taken |-> Len(args) - Len(rest)]

Bind(t, args) ==
  /\ pc[t] = "idle"
  /\ own[t] # NoHandle
  /\ LET h == own[t]
         r == BindLoop(eng[h], args, 0, params(eng[h]))
     IN  /\ TouchOnTask(h)
         /\ eng' = [eng EXCEPT ![h] = r.eng]
         /\ IF r.status = "SQLITE_OK"
            THEN /\ result' = [result EXCEPT ![t] = Took(Ok("unit"), args, r.args)]
                 /\ connDiag' = connDiag
            ELSE /\ connDiag' = DiagOf(r.status)
                 /\ result' = [result EXCEPT ![t] =
                                 Took(from_connection(connDiag'), args, r.args)]
  /\ UNCHANGED <<buffer, cursor, last, compiled, stmt, own, pc, queueVars, finalized>>

\* ------------------------------------------------------------------- reset
\* A reset that also rebuilds the column catalog, starting from an empty one.
ResetRebuildsColumns(t) ==
  /\ pc[t] = "idle"
  /\ own[t] # NoHandle
  /\ LET h == own[t]
     IN  /\ TouchOnTask(h)
         /\ eng' = [eng EXCEPT ![h].pos = 0, ![h].done = FALSE,
                               ![h].binds = [k \in DOMAIN eng[h].binds |-> "NULL"]]
         /\ stmt' = [stmt EXCEPT ![h].columns = EmptyMap]
  /\ result' = [result EXCEPT ![t] = Ok("unit")]
  /\ UNCHANGED <<buffer, cursor, last, compiled, connDiag, own, pc,
                 queueVars, finalized>>

\* A reset that rewinds the statement and leaves its bound values in place.
ResetKeepBindings(t) ==
  /\ pc[t] = "idle"
  /\ own[t] # NoHandle
  /\ LET h == own[t]
     IN  /\ TouchOnTask(h)
         /\ eng' = [eng EXCEPT ![h].pos = 0, ![h].done = FALSE]
  /\ result' = [result EXCEPT ![t] = Ok("unit")]
  /\ UNCHANGED <<buffer, cursor, last, compiled, stmt, connDiag, own, pc,
                 queueVars, finalized>>

\* sqlite3_reset then sqlite3_clear_bindings, statuses ignored.
Reset(t) ==
  /\ pc[t] = "idle"
  /\ own[t] # NoHandle
  /\ LET h == own[t]
     IN  /\ TouchOnTask(h)
         /\ eng' = [eng EXCEPT ![h].pos = 0, ![h].done = FALSE,
                               ![h].binds = [k \in DOMAIN eng[h].binds |-> "NULL"]]
  /\ result' = [result EXCEPT ![t] = Ok("unit")]
  /\ UNCHANGED <<buffer, cursor, last, compiled, stmt, connDiag, own, pc,
                 queueVars, finalized>>

\* -------------------------------------------------------------------- step
Unit(seq, h, t) ==
  [seq |-> seq, h |-> h, task |-> t, cancelled |-> FALSE, cq |-> FALSE,
   clobbered |-> FALSE]

\* The step call made at once on the calling task's thread instead of
\* being handed to the Worker.
StepInline(t) ==
  /\ stepLog' = Append(stepLog, [seq |-> nextSeq, overlapped |-> running # <<>>])
  /\ running' = Append(running, Unit(nextSeq, own[t], t))
  /\ UNCHANGED <<queue, reply>>

\* self.worker.run(move || sqlite3_step(handle.0.as_ptr())): the unit of
\* work, holding a copy of the handle, is handed to the Worker. A Worker
\* whose thread is gone takes nothing.
StepRun(t) ==
  /\ queue' = IF workerAlive THEN Append(queue, Unit(nextSeq, own[t], t)) ELSE queue
  /\ UNCHANGED <<stepLog, reply, running>>

\* step() up to its await.
StepSubmit(t) ==
  /\ pc[t] = "idle"
  /\ own[t] # NoHandle
  /\ nextSeq <= MaxSubmits
  /\ StepRun(t)
  /\ nextSeq' = nextSeq + 1
  /\ pc' = [pc EXCEPT ![t] = "awaiting"]
  /\ UNCHANGED <<buffer, cursor, last, compiled, stmt, eng, connDiag, own, result,
                 workerAlive, finalized, lateCalls, raced, cancelRuns>>

\* The rows a statement yields: every table holds MaxRows rows, and a
\* parameter left NULL matches none of them.
RowsOf(e) ==
  IF \E k \in DOMAIN e.binds : e.binds[k] = "NULL" THEN 0 ELSE MaxRows

\* sqlite3_step on a live statement: the next row while rows remain, then
\* done; a statement stepped after done starts over. The engine may also
\* fail the call (SQLITE_BUSY) and leave the statement where it was.
StepOutcomes(e) ==
  LET b == IF e.done THEN [e EXCEPT !.pos = 0, !.done = FALSE] ELSE e
  IN  { IF b.pos < RowsOf(b)
        THEN [status |-> "SQLITE_ROW", eng |-> [b EXCEPT !.pos = b.pos + 1]]
        ELSE [status |-> "SQLITE_DONE", eng |-> [b EXCEPT !.done = TRUE]],
        [status |-> "SQLITE_BUSY", eng |-> e] }

\* A step on a released handle, or one that ran while the task's thread
\* used the same handle, is undefined: any status, the statement advanced
\* or not.
StepOutcomesUndefined(e) ==
  { [status |-> s, eng |-> x] :
      s \in {"SQLITE_ROW", "SQLITE_DONE", "SQLITE_BUSY"},
      x \in {e} \cup (IF e.st = "prepared"
                      THEN {o.eng : o \in StepOutcomes(e)} ELSE {}) }

\* The Worker's thread takes the oldest unit and enters sqlite3_step.
WorkerBegin ==
  /\ workerAlive
  /\ running = <<>>
  /\ queue # <<>>
  /\ running' = <<Head(queue)>>
  /\ queue' = Tail(queue)
  /\ stepLog' = Append(stepLog, [seq |-> Head(queue).seq, overlapped |-> running # <<>>])
  /\ lateCalls' = IF eng[Head(queue).h].st = "finalized"
                  THEN lateCalls \cup {Head(queue).h} ELSE lateCalls
  /\ UNCHANGED <<buffer, cursor, last, compiled, stmt, eng, connDiag, own, pc,
                 result, reply, workerAlive, nextSeq, finalized, raced, cancelRuns>>

\* sqlite3_step returns on the Worker's thread; the status is sent to the
\* awaiting task unless it has lost interest.
WorkerEnd ==
  /\ workerAlive
  /\ running # <<>>
  /\ LET u == running[1]
         e == eng[u.h]
         outs == IF e.st = "finalized" \/ u.clobbered
                 THEN StepOutcomesUndefined(e) ELSE StepOutcomes(e)
     IN  /\ \E o \in outs :
               /\ eng' = [eng EXCEPT ![u.h] = o.eng]
               /\ connDiag' = DiagOf(o.status)
               /\ reply' = IF u.cancelled THEN reply
                           ELSE [reply EXCEPT ![u.task] = o.status]
         /\ cancelRuns' = IF u.cq THEN cancelRuns + 1 ELSE cancelRuns
         /\ lateCalls' = IF e.st = "finalized" THEN lateCalls \cup {u.h} ELSE lateCalls
  /\ running' = <<>>
  /\ UNCHANGED <<buffer, cursor, last, compiled, stmt, own, pc, result, queue,
                 workerAlive, nextSeq, stepLog, finalized, raced>>

\* A mapping that takes every status other than a row for the end of the
\* execution.
StepResultLenient(status, diag) ==
  IF status = "SQLITE_ROW" THEN Ok("Row") ELSE Ok("Done")

\* match status { SQLITE_DONE => Ok(Step::Done), SQLITE_ROW => Ok(Step::Row),
\*                _ => Err(SqliteError::from_connection(..)) }
StepResult(status, diag) ==
  CASE status = "SQLITE_DONE" -> Ok("Done")
    [] status = "SQLITE_ROW" -> Ok("Row")
    [] OTHER -> from_connection(diag)

\* The awaiting task is resumed with the Worker's answer.
StepResume(t) ==
  /\ pc[t] = "awaiting"
  /\ reply[t] # "none"
  /\ result' = [result EXCEPT ![t] = StepResult(reply[t], connDiag)]
  /\ reply' = [reply EXCEPT ![t] = "none"]
  /\ pc' = [pc EXCEPT ![t] = "idle"]
  /\ UNCHANGED <<buffer, cursor, last, compiled, stmt, eng, connDiag, own, queue,
                 running, workerAlive, nextSeq, stepLog, finalized, lateCalls,
                 raced, cancelRuns>>

Disown(u, t, queued) ==
  IF u.task = t /\ ~u.cancelled
  THEN [u EXCEPT !.cancelled = TRUE, !.cq = queued]
  ELSE u

\* Dropping the future also withdraws the unit of work from the queue.
CancelWithdraw(t) ==
  /\ queue' = SelectSeq(queue, LAMBDA u : u.task # t \/ u.cancelled)
  /\ running' = [i \in 1..Len(running) |-> Disown(running[i], t, FALSE)]

\* The future of step() is dropped at its await: the closure, which owns
\* its copy of the handle, stays with the Worker; only the interest in the
\* result is gone.
CancelFuture(t) ==
  /\ queue' = [i \in 1..Len(queue) |-> Disown(queue[i], t, TRUE)]
  /\ running' = [i \in 1..Len(running) |-> Disown(running[i], t, FALSE)]

\* The task awaiting step() is cancelled; it keeps its Statement.
CancelStep(t) ==
  /\ pc[t] = "awaiting"
  /\ CancelFuture(t)
  /\ reply' = [reply EXCEPT ![t] = "none"]
  /\ pc' = [pc EXCEPT ![t] = "idle"]
  /\ result' = [result EXCEPT ![t] = Ok("unit")]
  /\ UNCHANGED <<buffer, cursor, last, compiled, stmt, eng, connDiag, own,
                 workerAlive, nextSeq, stepLog, finalized, lateCalls, raced,
                 cancelRuns>>

\* The Worker's thread terminates; what it held is never executed.
WorkerDie ==
  /\ workerAlive
  /\ workerAlive' = FALSE
  /\ queue' = <<>>
  /\ running' = <<>>
  /\ UNCHANGED <<buffer, cursor, last, compiled, stmt, eng, connDiag, own, pc,
                 result, reply, nextSeq, stepLog, finalized, lateCalls, raced,
                 cancelRuns>>

\* run() cannot hand an error to step(), whose status is a bare engine
\* code: with the Worker gone the await either never resumes (no action)
\* or the failure unwinds the task, which drops its Statement.
StepDead(t) ==
  /\ pc[t] = "awaiting"
  /\ ~workerAlive
  /\ reply[t] = "none"
  /\ Finalize(own[t])
  /\ own' = [own EXCEPT ![t] = NoHandle]
  /\ pc' = [pc EXCEPT ![t] = "panicked"]
  /\ result' = [result EXCEPT ![t] = Ok("panic")]
  /\ UNCHANGED <<buffer, cursor, last, compiled, stmt, connDiag, queueVars>>

Next ==
  \/ \E t \in Tasks :
       \/ Compile(t)
       \/ \E args \in ArgSources : Bind(t, args)
       \/ Reset(t)
       \/ StepSubmit(t)
       \/ StepResume(t)
       \/ CancelStep(t)
       \/ Drop(t)
  \/ WorkerBegin
  \/ WorkerEnd

\* The lifecycle while the Worker's thread lives.
Spec == Init /\ [][Next]_vars

NextShutdown ==
  \/ Next
  \/ WorkerDie
  \/ \E t \in Tasks : StepDead(t)

\* The lifecycle of one statement, with two parameters or with none.
InitBind == InitWith(BindBuffers)

SpecBind == InitBind /\ [][Next]_vars

\* The lifecycle with the Worker's thread terminating at any moment.
SpecShutdown == Init /\ [][NextShutdown]_vars

\* ------------------------------------------------- claims about compile
\* The text that follows the statement compiled by the last call.
RestOfLast ==
  SubSeq(Text(last.before), last.tail + 1, last.before.len)

RECURSIVE StripLeading(_)
StripLeading(z) ==
  IF z # <<>> /\ Head(z) = " " THEN StripLeading(Tail(z)) ELSE z

RECURSIVE StripTrailing(_)
StripTrailing(z) ==
  IF z # <<>> /\ z[Len(z)] = " "
  THEN StripTrailing(SubSeq(z, 1, Len(z) - 1)) ELSE z

\* C6 as stated: the tails recorded by successive successful compiles over
\* one buffer strictly increase.
C6_TailsIncrease ==
  \A i, j \in 1..Len(compiled) : i < j => compiled[i].tail < compiled[j].tail

\* C6 amended: each recorded tail is the offset of the statement's end taken
\* from the start of the cursor given to that compile (so it lies within
\* that cursor's text and may repeat); it is the end position in the
\* original buffer, cursor start + tail, that strictly increases, and each
\* compile starts at or after the end of the previous statement.
C6_EndsIncrease ==
  \A i, j \in 1..Len(compiled) :
    i < j => /\ compiled[i].start + compiled[i].tail
                  < compiled[j].start + compiled[j].tail
             /\ compiled[i].start + compiled[i].tail <= compiled[j].start
             /\ compiled[j].start + compiled[j].tail <= Len(buffer)

\* "a;a;": both tails are 2, the second statement ends at the end of input.
C6_Witness ==
  /\ buffer = <<"a", ";", "a", ";">>
  /\ Len(compiled) = 2
  /\ compiled[1].tail = 2 /\ compiled[2].tail = 2
  /\ compiled[2].start + compiled[2].tail = Len(buffer)

\* C7 as stated: after a successful compile the cursor is the text past the
\* compiled statement with its leading whitespace removed and nothing else
\* removed.
C7_OnlyLeadingTrimmed ==
  last.outcome = "ok" => Text(cursor) = StripLeading(RestOfLast)

\* C7 amended: after a successful compile the cursor is the text past the
\* compiled statement with its leading and its trailing whitespace removed,
\* and nothing else removed or changed.
C7_BothEndsTrimmed ==
  last.outcome = "ok" =>
    /\ Text(cursor) = StripTrailing(StripLeading(RestOfLast))
    /\ cursor.off >= last.before.off + last.tail
    /\ cursor.off + cursor.len <= last.before.off + last.before.len

\* "a;a ": the cursor becomes "a", the trailing blank is gone.
C7_Witness ==
  /\ last.outcome = "ok"
  /\ RestOfLast = <<"a", " ">>
  /\ Text(cursor) = <<"a">>

\* One statement and nothing else: no rejected token, a body, and at most
\* one ";" which then ends the text.
IsSingleStatement(z) ==
  /\ \A i \in 1..Len(z) : z[i] # "!"
  /\ \E i \in 1..Len(z) : z[i] \notin {" ", ";"}
  /\ \A i \in 1..Len(z) : z[i] = ";" => i = Len(z)

C9_NoThirdOutcome ==
  /\ last.outcome \in {"none", "ok", "err"}
  /\ last.outcome = "ok" => last.h # NoHandle
  /\ \A t \in Tasks : pc[t] # "panicked"

\* C10: a rejected text gives an error that carries the diagnostic the
\* connection holds for the rejection, creates no Statement (every native
\* statement ever created belongs to a successful compile), and leaves the
\* cursor as it was.
C10_RejectedCompile ==
  /\ Cardinality({h \in Handles : eng[h].st # "none"}) = Len(compiled)
  /\ last.outcome = "err" =>
       /\ last.err = [kind |-> "err", code |-> connDiag.code, msg |-> connDiag.msg]
       /\ connDiag.code = "SQLITE_ERROR"
       /\ last.h = NoHandle
       /\ cursor = last.before
       /\ \A h \in Handles : finalized[h] <= (IF eng[h].st = "none" THEN 0 ELSE 1)

\* A statement was compiled, then the rest of the text was rejected.
C10_Witness ==
  /\ last.outcome = "err"
  /\ Len(compiled) = 1
  /\ cursor.off > 0
  /\ \E t \in Tasks : result[t].kind = "err"

\* ---------------------------------------------- claims about the lifecycle
\* C1: the release is issued exactly once per Statement, at its destruction
\* (a native statement is released if and only if no task owns it any
\* more), and no engine call is issued on a handle after its release.
C1_ReleasedOnceThenUnused ==
  /\ \A h \in Handles :
       /\ finalized[h] <= 1
       /\ eng[h].st = "finalized" <=> finalized[h] = 1
       /\ eng[h].st = "prepared" <=> \E t \in Tasks : own[t] = h
  /\ lateCalls = {}

\* C2: no engine call is issued on a handle from a task's thread while a
\* step unit for that handle is pending in, or executing on, the Worker.
C2_NoUseWhileStepPending == raced = {}

\* C3: the engine sees the step calls of one connection one at a time and in
\* submission order: the k-th call it sees is the k-th submission, none
\* begins while another executes, and what waits is younger than what runs.
C3_StepsInSubmissionOrder ==
  /\ \A i \in 1..Len(stepLog) : stepLog[i].seq = i /\ ~stepLog[i].overlapped
  /\ \A i, j \in 1..Len(queue) : i < j => queue[i].seq < queue[j].seq
  /\ \A i \in 1..Len(queue) : queue[i].seq > Len(stepLog)
  /\ Len(running) <= 1
  /\ \A i \in 1..Len(running) : running[i].seq = Len(stepLog)

\* Two tasks stepped different Statements: the first submission executes
\* while the second waits its turn.
C3_Witness ==
  /\ Len(running) = 1 /\ Len(queue) = 1
  /\ running[1].seq = 1 /\ queue[1].seq = 2
  /\ running[1].task # queue[1].task
  /\ running[1].h # queue[1].h
  /\ ~running[1].cancelled /\ ~queue[1].cancelled

\* C4: once the Worker's thread is gone, a step ends with the
\* worker-unavailable error and never by aborting its caller.
C4_DeadWorkerFailsStep ==
  \A t \in Tasks :
    /\ ~workerAlive => result[t].kind # "panic"
    /\ pc[t] = "panicked" => result[t].kind = "WorkerUnavailable"

\* C5: no submitted unit of work leaves the Worker unexecuted, whether or
\* not its task was cancelled meanwhile: a queued unit stays queued or
\* starts executing, and a cancelled unit that is executing either keeps
\* executing or completes the engine's step (on a live statement that only
\* the Worker uses: one of the step's outcomes, with its diagnostic).
C5_CancelledUnitStillRuns ==
  [][ /\ \A i \in 1..Len(queue) :
           \/ \E j \in 1..Len(queue') : queue'[j].seq = queue[i].seq
           \/ \E j \in 1..Len(running') : running'[j].seq = queue[i].seq
      /\ \A i \in 1..Len(running) :
           running[i].cancelled =>
             \/ \E j \in 1..Len(running') : running'[j].seq = running[i].seq
             \/ (eng[running[i].h].st = "prepared" /\ ~running[i].clobbered) =>
                  \E o \in StepOutcomes(eng[running[i].h]) :
                    /\ eng'[running[i].h] = o.eng
                    /\ connDiag' = DiagOf(o.status)
    ]_vars

\* The only step ever submitted was cancelled while queued, was executed
\* all the same, and advanced its statement.
C5_Witness ==
  /\ cancelRuns = 1
  /\ nextSeq = 2
  /\ \E h \in Handles :
       /\ eng[h].st = "prepared"
       /\ eng[h].done \/ eng[h].pos > 0
       /\ h \notin raced

\* --------------------------------------------------- claims about bind
IsBindResult(r) == "taken" \in DOMAIN r

Min(a, b) == IF a <= b THEN a ELSE b

\* The number of values bind can reach: those the source holds, up to the
\* statement's parameter count.
Reach(e, args) == Min(Len(args), params(e))

\* The index of the first value within reach that the engine rejects, or 0.
FirstRejected(e, args) ==
  LET R == {k \in 1..Reach(e, args) : BindStatus(e, args[k]) # "SQLITE_OK"}
  IN  IF R = {} THEN 0 ELSE CHOOSE k \in R : \A j \in R : k <= j

\* C11 as stated: a bind from a source holding fewer values than the
\* statement has parameters always succeeds, binds the k-th value to index
\* k, and leaves every later slot NULL.
C11_ShortSourceAlwaysSucceeds ==
  [][ \A t \in Tasks, args \in ArgSources :
        (Bind(t, args) /\ Len(args) < params(eng[own[t]])) =>
          /\ result'[t].kind = "unit"
          /\ \A k \in 1..Len(args) : eng'[own[t]].binds[k] = args[k]
          /\ \A k \in (Len(args) + 1)..params(eng[own[t]]) :
               eng'[own[t]].binds[k] = "NULL"
    ]_vars

\* C11: a bind from a source holding fewer values than the statement has
\* parameters stops when the source is exhausted: unless the engine rejects
\* one of the supplied values it returns success, having taken every value
\* and bound the k-th to index k, and every slot beyond the last supplied
\* value keeps the value it had before the call (NULL on a statement not
\* bound since it was compiled or last reset). When a supplied value is
\* rejected the call returns an error.
C11_ShortSourceBinds ==
  [][ \A t \in Tasks, args \in ArgSources :
        (Bind(t, args) /\ Len(args) < params(eng[own[t]])) =>
          LET e == eng[own[t]]
              f == eng'[own[t]]
          IN  IF FirstRejected(e, args) = 0
              THEN /\ result'[t].kind = "unit"
                   /\ result'[t].taken = Len(args)
                   /\ \A k \in 1..Len(args) : f.binds[k] = args[k]
                   /\ \A k \in (Len(args) + 1)..params(e) : f.binds[k] = e.binds[k]
                   /\ (\A k \in 1..params(e) : e.binds[k] = "NULL") =>
                        \A k \in (Len(args) + 1)..params(e) : f.binds[k] = "NULL"
              ELSE result'[t].kind = "err"
    ]_vars

\* A bind of one value to a statement with two parameters succeeded: the
\* value is at index 1 and index 2 is NULL.
C11_Witness ==
  \E t \in Tasks :
    /\ own[t] # NoHandle
    /\ IsBindResult(result[t])
    /\ result[t].kind = "unit"
    /\ result[t].taken = 1
    /\ eng[own[t]].st = "prepared"
    /\ eng[own[t]].binds = <<"v", "NULL">>

\* C12: when the bind of the value for index j fails, bind returns that
\* error at once: the values it bound to 1..j-1 stay bound, the slots from
\* j on are as they were, and no value beyond the j-th is taken from the
\* source; and a bound slot becomes NULL again only by a reset of its
\* statement.
C12_FailedBindKeepsEarlier ==
  [][ /\ \A t \in Tasks, args \in ArgSources :
           (Bind(t, args) /\ FirstRejected(eng[own[t]], args) # 0) =>
             LET e == eng[own[t]]
                 f == eng'[own[t]]
                 j == FirstRejected(e, args)
             IN  /\ result'[t].kind = "err"
                 /\ result'[t].code = BindStatus(e, args[j])
                 /\ connDiag'.code = BindStatus(e, args[j])
                 /\ result'[t].taken = j
                 /\ \A k \in 1..(j - 1) : f.binds[k] = args[k]
                 /\ \A k \in j..params(e) : f.binds[k] = e.binds[k]
      /\ \A h \in Handles :
           \A k \in DOMAIN eng[h].binds \cap DOMAIN eng'[h].binds :
             (eng[h].binds[k] # "NULL" /\ eng'[h].binds[k] = "NULL") =>
               \E t \in Tasks : own[t] = h /\ Reset(t)
    ]_vars

\* The second value of a bind was rejected: the call failed after taking
\* two values, and the first is still bound.
C12_Witness ==
  \E t \in Tasks :
    /\ own[t] # NoHandle
    /\ IsBindResult(result[t])
    /\ result[t].kind = "err"
    /\ result[t].code = "SQLITE_TOOBIG"
    /\ result[t].taken = 2
    /\ eng[own[t]].binds = <<"v", "NULL">>

\* C19 as stated: a bind from a source holding more values than the
\* statement has parameters takes exactly as many values as there are
\* parameters.
C19_SurplusTakesExactlyParams ==
  [][ \A t \in Tasks, args \in ArgSources :
        (Bind(t, args) /\ Len(args) > params(eng[own[t]])) =>
          result'[t].taken = params(eng[own[t]])
    ]_vars

\* C19: bind takes at most as many values as the statement has parameters
\* and never binds beyond the last parameter. From a source holding more
\* values it takes exactly that many and succeeds when the engine rejects
\* none of them, and takes exactly j when the j-th is rejected; the values
\* after those taken stay in the source. With no parameters nothing is
\* taken and bind succeeds.
C19_TakesAtMostParams ==
  [][ \A t \in Tasks, args \in ArgSources :
        Bind(t, args) =>
          LET e == eng[own[t]]
              f == eng'[own[t]]
              j == FirstRejected(e, args)
          IN  /\ result'[t].taken <= params(e)
              /\ DOMAIN f.binds = DOMAIN e.binds
              /\ (Len(args) > params(e) /\ j = 0) =>
                   /\ result'[t].taken = params(e)
                   /\ result'[t].kind = "unit"
                   /\ \A k \in 1..params(e) : f.binds[k] = args[k]
              /\ j # 0 => result'[t].taken = j
              /\ params(e) = 0 =>
                   /\ result'[t].taken = 0
                   /\ result'[t].kind = "unit"
    ]_vars

\* A bind offered more values than the two parameters took two of them
\* and bound both.
C19_Witness ==
  \E t \in Tasks :
    /\ own[t] # NoHandle
    /\ IsBindResult(result[t])
    /\ result[t].kind = "unit"
    /\ result[t].taken = 2
    /\ eng[own[t]].binds = <<"v", "v">>


\* -------------------------------------------------- claims about reset
\* C13: a reset leaves the statement as a fresh compile of the same text
\* leaves it: not stepped, not done, every parameter NULL. The engine
\* answers bind and step from that state alone, so each reset -> bind ->
\* step cycle yields the rows and the final status of a fresh compile bound
\* and stepped the same way.
C13_ResetIsFreshCompile ==
  [][ \A t \in Tasks :
        Reset(t) =>
          /\ eng'[own[t]] = FreshEng(params(eng[own[t]]))
          /\ \A args \in ArgSources :
               BindLoop(eng'[own[t]], args, 0, params(eng'[own[t]]))
                 = BindLoop(FreshEng(params(eng[own[t]])), args, 0,
                            params(eng[own[t]]))
          /\ StepOutcomes(eng'[own[t]]) = StepOutcomes(FreshEng(params(eng[own[t]])))
    ]_vars

\* A statement with two parameters was stepped to Done and then reset: the
\* engine's last answer is Done, and the statement is not done, not
\* stepped and has no bound value.
C13_Witness ==
  \E t \in Tasks :
    /\ own[t] # NoHandle
    /\ pc[t] = "idle"
    /\ result[t] = Ok("unit")
    /\ connDiag.code = "SQLITE_DONE"
    /\ stepLog # <<>>
    /\ queue = <<>> /\ running = <<>>
    /\ raced = {} /\ lateCalls = {}
    /\ params(eng[own[t]]) = 2
    /\ eng[own[t]] = FreshEng(2)

\* --------------------------------------------------- claims about step
\* C14: each call of step() hands exactly one unit of work, holding the
\* statement's handle, to the Worker and makes no engine call on the
\* caller's thread; each unit enters the engine's step once, never again;
\* and the task is resumed with Row for SQLITE_ROW, Done for SQLITE_DONE,
\* and for every other status an error carrying the code and message the
\* connection holds at that moment, without submitting anything more.
C14_StepOnceThroughWorker ==
  [][ /\ \A t \in Tasks :
           StepSubmit(t) =>
             /\ Len(queue') = Len(queue) + 1
             /\ queue'[Len(queue')].h = own[t]
             /\ queue'[Len(queue')].task = t
             /\ queue'[Len(queue')].seq = nextSeq
             /\ SubSeq(queue', 1, Len(queue)) = queue
             /\ stepLog' = stepLog
             /\ running' = running
             /\ eng' = eng
      /\ \A t \in Tasks :
           StepResume(t) =>
             /\ reply[t] = "SQLITE_ROW" => result'[t] = Ok("Row")
             /\ reply[t] = "SQLITE_DONE" => result'[t] = Ok("Done")
             /\ reply[t] \notin {"SQLITE_ROW", "SQLITE_DONE"} =>
                  /\ result'[t].kind = "err"
                  /\ result'[t].code = connDiag.code
                  /\ result'[t].msg = connDiag.msg
             /\ queue' = queue
             /\ nextSeq' = nextSeq
             /\ stepLog' = stepLog
      /\ \A i, j \in 1..Len(stepLog') :
           stepLog'[i].seq = stepLog'[j].seq => i = j
      /\ Len(stepLog') + Len(queue') = nextSeq' - 1
    ]_vars

\* Two steps were submitted and executed once each; one task was resumed
\* with the engine's error, the other with Row or Done.
C14_Witness ==
  /\ nextSeq = 3
  /\ Len(stepLog) = 2
  /\ queue = <<>> /\ running = <<>>
  /\ \E t, u \in Tasks :
       /\ pc[t] = "idle" /\ pc[u] = "idle"
       /\ result[t].kind = "err"
       /\ result[t].code = "SQLITE_BUSY"
       /\ result[u].kind \in {"Row", "Done"}

\* C17: the error a failed step() returns carries the diagnostic of the
\* failing engine call: the code the Worker's sqlite3_step returned and its
\* message, whatever other engine calls were made on the connection before
\* the awaiting task was resumed.
C17_StepErrorCarriesItsOwnDiagnostic ==
  [][ \A t \in Tasks :
        (StepResume(t) /\ reply[t] \notin {"SQLITE_ROW", "SQLITE_DONE"}) =>
          result'[t] = from_connection(DiagOf(reply[t]))
    ]_vars

\* ----------------------------------------- claims about the column catalog
\* The column names the engine reports for the statement compiled from the
\* text at c.start.
NamesOfCompiled(c) ==
  sqlite3_prepare_v3(SubSeq(buffer, c.start + 1, Len(buffer))).names

\* The catalog of the column names: each name with the greatest index it
\* is reported at.
CatalogOf(names) ==
  [n \in {names[i] : i \in 1..Len(names)} |->
     CHOOSE i \in 0..(Len(names) - 1) :
       /\ names[i + 1] = n
       /\ \A j \in 0..(Len(names) - 1) : names[j + 1] = n => j <= i]

\* C15: after any sequence of bind, step and reset (and of every other
\* operation) the catalog of a compiled statement is the one compile built:
\* the catalog of the column names of the text it was compiled from.
C15_CatalogUnchanged ==
  \A i \in 1..Len(compiled) :
    stmt[i].columns = CatalogOf(NamesOfCompiled(compiled[i]))

\* A statement with a column was stepped to Done, reset and bound again:
\* its catalog still holds the column.
C15_Witness ==
  \E t \in Tasks :
    /\ own[t] # NoHandle
    /\ IsBindResult(result[t])
    /\ connDiag.code = "SQLITE_DONE"
    /\ stepLog # <<>>
    /\ queue = <<>> /\ running = <<>>
    /\ raced = {} /\ lateCalls = {}
    /\ eng[own[t]].pos = 0 /\ ~eng[own[t]].done
    /\ eng[own[t]].binds = <<"v">>
    /\ stmt[own[t]].columns = [n \in {"a"} |-> 0]

\* The column names the engine reported to the last compile.
NamesOfLast == sqlite3_prepare_v3(Text(last.before)).names

Distinct(names) ==
  \A i, j \in 1..Len(names) : names[i] = names[j] => i = j

\* C16 as stated: the catalog of a compiled statement has as many entries
\* as the engine reports columns.
C16_SizeIsColumnCount ==
  last.outcome = "ok" =>
    Cardinality(DOMAIN stmt[last.h].columns) = Len(NamesOfLast)

\* C16: the catalog of a compiled statement has as many entries as the
\* engine reports distinct column names: never more than the column count,
\* and exactly the column count when no two columns share a name.
C16_SizeIsDistinctNames ==
  last.outcome = "ok" =>
    /\ Cardinality(DOMAIN stmt[last.h].columns)
         = Cardinality({NamesOfLast[i] : i \in 1..Len(NamesOfLast)})
    /\ Cardinality(DOMAIN stmt[last.h].columns) <= Len(NamesOfLast)
    /\ Distinct(NamesOfLast) <=>
         Cardinality(DOMAIN stmt[last.h].columns) = Len(NamesOfLast)

\* A statement with three columns under two names was compiled: its
\* catalog has two entries.
C16_Witness ==
  /\ last.outcome = "ok"
  /\ Len(NamesOfLast) = 3
  /\ Cardinality(DOMAIN stmt[last.h].columns) = 2

\* C18: every column name the engine reports is a key of the catalog, no
\* other name is, and a name maps to the greatest index at which the
\* engine reports it.
C18_LaterIndexWins ==
  last.outcome = "ok" =>
    LET cat == stmt[last.h].columns
    IN  /\ \A i \in 1..Len(NamesOfLast) : NamesOfLast[i] \in DOMAIN cat
        /\ \A n \in DOMAIN cat :
             /\ cat[n] \in 0..(Len(NamesOfLast) - 1)
             /\ NamesOfLast[cat[n] + 1] = n
             /\ \A j \in 0..(Len(NamesOfLast) - 1) :
                  NamesOfLast[j + 1] = n => j <= cat[n]

\* The engine reported the name "a" at indices 0 and 2 and "b" at index 1:
\* the catalog maps "a" to 2.
C18_Witness ==
  /\ last.outcome = "ok"
  /\ NamesOfLast = <<"a", "b", "a">>
  /\ stmt[last.h].columns["a"] = 2
  /\ stmt[last.h].columns["b"] = 1

\* ------------------------------------------- claims about batch compiles
\* The number of statements of a text: the runs between ";" that hold
\* something other than whitespace.
RECURSIVE StatementCount(_, _)
StatementCount(z, open) ==
  IF z = <<>> THEN (IF open THEN 1 ELSE 0)
  ELSE IF Head(z) = ";" THEN (IF open THEN 1 ELSE 0) + StatementCount(Tail(z), FALSE)
  ELSE StatementCount(Tail(z), open \/ ~IsWs(Head(z)))

====
